---- MODULE Spec2Model ----
(***************************************************************************)
(* Stonk App server (src/README.md, lines 60-412): the db.json document,   *)
(* the request handlers that read and rewrite it, the manual-entry         *)
(* normalizer and the merged portfolio view.                               *)
(*                                                                         *)
(* Every handler is an async function.  A handler runs without             *)
(* interruption between two awaits, so each action below is one such       *)
(* stretch: from the arrival of the request, or from the completion of an  *)
(* awaited call, up to the next await.  readDb and writeDb are awaited     *)
(* whole-document file reads and writes; other handlers may run between a  *)
(* handler's read and its write.                                           *)
(*                                                                         *)
(* JavaScript values that can be of several types are tagged records       *)
(* (field t); a string is a sequence of one-character strings, so that     *)
(* trim, toUpperCase and template concatenation are computed.              *)
(***************************************************************************)
EXTENDS Integers, Sequences, FiniteSets, TLC

VARIABLES db, req, out, clock, nextId, served, prevSync, env, sheet

vars == <<db, req, out, clock, nextId, served, prevSync, env, sheet>>

(* ------------------------------ bounds -------------------------------- *)

\* Concurrent requests in flight (handlers interleaved at their awaits).
NumProcs == 2
\* Requests the server takes in one run.
MaxRequests == 3
\* new Date() readings: 0..MaxClock.
MaxClock == 1
\* Longest rows array sent to the import handler.
MaxRows == 2

Procs == 1..NumProcs

(* --------------------------- JavaScript values ------------------------ *)

Undef == [t |-> "undefined"]
Null == [t |-> "null"]
NaN == [t |-> "nan"]
Str(s) == [t |-> "string", s |-> s]
Num(n) == [t |-> "number", n |-> n]
\* An array with the elements of the sequence a.
Arr(a) == [t |-> "array", a |-> a]
\* An object with the keys and values of the record o.
Obj(o) == [k \in DOMAIN o \cup {"t"} |-> IF k = "t" THEN "object" ELSE o[k]]

\* !!v
Truthy(v) ==
  CASE v.t = "string" -> v.s # <<>>
    [] v.t = "number" -> v.n # 0
    [] OTHER -> FALSE

\* a || b
OrElse(a, b) == IF Truthy(a) THEN a ELSE b

\* String(v) for the values that reach it here: strings stay as they are.
JsString(v) ==
  CASE v.t = "string" -> v.s
    [] v.t = "undefined" -> <<"u", "n", "d", "e", "f", "i", "n", "e", "d">>
    [] v.t = "null" -> <<"n", "u", "l", "l">>
    [] OTHER -> <<"?">>

IsSpace(c) == c \in {" ", "\t"}

RECURSIVE TrimStart(_)
TrimStart(s) ==
  IF s # <<>> /\ IsSpace(Head(s)) THEN TrimStart(Tail(s)) ELSE s

RECURSIVE TrimEnd(_)
TrimEnd(s) ==
  IF s # <<>> /\ IsSpace(s[Len(s)]) THEN TrimEnd(SubSeq(s, 1, Len(s) - 1)) ELSE s

\* String.prototype.trim
Trim(s) == TrimEnd(TrimStart(s))

UpperChar(c) ==
  CASE c = "a" -> "A"
    [] c = "x" -> "X"
    [] c = "y" -> "Y"
    [] OTHER -> c

\* (A symbol kept in the case it came in.)
KeepCase(s) == s

\* String.prototype.toUpperCase
ToUpperCase(s) == [i \in 1..Len(s) |-> UpperChar(s[i])]

DigitOf(c) ==
  CASE c = "0" -> 0 [] c = "1" -> 1 [] c = "2" -> 2 [] c = "3" -> 3
    [] c = "4" -> 4 [] c = "5" -> 5 [] c = "6" -> 6 [] c = "7" -> 7
    [] c = "8" -> 8 [] c = "9" -> 9 [] OTHER -> -1

RECURSIVE Decimal(_)
Decimal(s) ==
  IF s = <<>> THEN 0 ELSE 10 * Decimal(SubSeq(s, 1, Len(s) - 1)) + DigitOf(s[Len(s)])

\* Number(v): undefined is NaN, null is 0, a string is trimmed and read as
\* a decimal numeral ("" is 0, anything else NaN).
JsNumber(v) ==
  CASE v.t = "number" -> v
    [] v.t = "null" -> Num(0)
    [] v.t = "string" ->
         LET s == Trim(v.s) IN
         IF \A i \in 1..Len(s) : DigitOf(s[i]) >= 0 THEN Num(Decimal(s)) ELSE NaN
    [] OTHER -> NaN

\* toNumber: a finite number, or 0.
toNumber(input) ==
  LET value == JsNumber(input) IN
  IF value.t = "number" THEN value.n ELSE 0

\* uuidv4(): the n-th identifier generated by this process.
Uuid(n) == <<"u" \o ToString(n)>>

\* new Date().toISOString() read when the clock shows n.
Iso(n) == [t |-> "string", at |-> n]

\* raw.key of an object that may lack the key.
Field(raw, key) == IF key \in DOMAIN raw THEN raw[key] ELSE Undef

(* --------------------------- the normalizer --------------------------- *)

\* What a handler gets from a call that threw.
Threw == [t |-> "throw"]

\* normalizeManualEntry(raw = {}), with the uuid and the date it reads.
\* Null (JavaScript null) is the rejection; a null argument is not replaced
\* by the default {} (only undefined is) and reading raw.account throws.
normalizeManualEntry(raw, id, now) ==
  IF raw = Null THEN Threw
  ELSE
    LET account == Trim(JsString(OrElse(Field(raw, "account"), Str(<<>>))))
        symbol == ToUpperCase(Trim(JsString(OrElse(Field(raw, "symbol"), Str(<<>>)))))
        name == Trim(JsString(OrElse(Field(raw, "name"), Str(<<>>))))
    IN IF account = <<>> \/ symbol = <<>> \/ name = <<>> THEN Null
       ELSE [id |-> id,
             account |-> account,
             symbol |-> symbol,
             name |-> name,
             quantity |-> toNumber(Field(raw, "quantity")),
             price |-> toNumber(Field(raw, "price")),
             costBasis |-> toNumber(Field(raw, "costBasis")),
             updatedAt |-> now]

(* --------------------------- the environment -------------------------- *)

\* process.env as the server finds it: with both Google settings, without
\* the sheet id, without the service account.
Envs ==
  {[GOOGLE_SERVICE_ACCOUNT_JSON |-> Str(<<"{", "}">>), GOOGLE_SHEET_ID |-> Str(<<"g">>)],
   [GOOGLE_SERVICE_ACCOUNT_JSON |-> Str(<<"{", "}">>), GOOGLE_SHEET_ID |-> Undef],
   [GOOGLE_SERVICE_ACCOUNT_JSON |-> Undef, GOOGLE_SHEET_ID |-> Str(<<"g">>)]}

(* ------------------------------ the store ----------------------------- *)

\* The document ensureDb writes when db.json does not exist.
starter ==
  [plaidItems |-> <<>>,
   plaidHoldings |-> <<>>,
   manualInvestments |-> <<>>,
   lastSyncAt |-> Null]

\* readDb: the document in db.json now.
readDb == db

\* writeDb(nextDb): db.json holds nextDb, whatever it held before.
writeDb(nextDb) == db' = nextDb

(* ------------------------------ requests ------------------------------ *)

\* A slot with no request in it.  A handler's locals: the request (in),
\* the document it read (snap), the entries, item or holdings it built, the
\* provider answers of its sync loop so far (seen), the access token and
\* the date read for lastSyncAt (at).
NoRequest ==
  [op |-> "none", pc |-> "idle", in |-> Undef, snap |-> Undef,
   entries |-> <<>>, holdings |-> <<>>, seen |-> <<>>, at |-> Null,
   token |-> Undef]

\* No response yet.
NoResponse == [op |-> "none", in |-> Undef, seen |-> <<>>, res |-> Undef]

\* A request is dispatched to the first free slot.
Free(p) ==
  /\ served < MaxRequests
  /\ req[p].pc = "idle"
  /\ \A q \in Procs : q < p => req[q].pc # "idle"

\* The handler's locals when it is called with request in.
Called(op, in) == [NoRequest EXCEPT !.op = op, !.in = in]

\* Handler op resumes in slot p from the await it left at pc.
Resumes(p, op, pc) == req[p].op = op /\ req[p].pc = pc

\* The response a handler ends with, beside its request (and, for a sync,
\* the provider answers it got).  Status 0: no response, the handler's
\* promise rejected with an uncaught exception.
Response(r, res) == [op |-> r.op, in |-> r.in, seen |-> r.seen, res |-> res]

Uncaught == [status |-> 0]

\* Handler r ends in slot p with response res.
Ends(p, r, res) ==
  /\ req' = [req EXCEPT ![p] = NoRequest]
  /\ out' = Response(r, res)
  /\ served' = IF req[p].pc = "idle" THEN served + 1 ELSE served

\* Handler r goes on in slot p.
Awaits(p, r) ==
  /\ req' = [req EXCEPT ![p] = r]
  /\ served' = IF req[p].pc = "idle" THEN served + 1 ELSE served
  /\ UNCHANGED out

Init ==
  /\ db = starter
  /\ req = [p \in Procs |-> NoRequest]
  /\ out = NoResponse
  /\ clock = 0
  /\ nextId = 1
  /\ served = 0
  /\ prevSync = Null
  /\ env \in Envs
  /\ sheet = Null

\* Time passes between any two steps.
Tick ==
  /\ clock < MaxClock
  /\ clock' = clock + 1
  /\ UNCHANGED <<db, req, out, nextId, served, prevSync, env, sheet>>

(* ---------------- POST /api/manual-investments (add-manual) ----------- *)

\* The handler is called: it checks the raw fields, normalizes them and
\* awaits readDb.
AddManual(p, body) ==
  /\ Free(p)
  /\ LET r == Called("add", body)
         account == Field(body, "account")
         symbol == Field(body, "symbol")
         name == Field(body, "name")
     IN IF ~Truthy(account) \/ ~Truthy(symbol) \/ ~Truthy(name)
        THEN /\ Ends(p, r, [status |-> 400])
             /\ UNCHANGED nextId
        ELSE LET entry == normalizeManualEntry(
                            Obj([account |-> account, symbol |-> symbol,
                                 name |-> name, quantity |-> Field(body, "quantity"),
                                 price |-> Field(body, "price"),
                                 costBasis |-> Field(body, "costBasis")]),
                            Uuid(nextId), Iso(clock))
             IN /\ Awaits(p, [r EXCEPT !.pc = "read", !.entries = <<entry>>])
                /\ nextId' = IF entry = Null THEN nextId ELSE nextId + 1
  /\ UNCHANGED <<db, clock, prevSync, env, sheet>>

\* (A push that also empties the holdings.)
PushManualReset(snap, entries) ==
  [snap EXCEPT !.manualInvestments = @ \o entries, !.plaidHoldings = <<>>]

\* The document the add and import handlers hand to writeDb.
PushManual(snap, entries) ==
  [snap EXCEPT !.manualInvestments = @ \o entries]

\* readDb resolves: the entry is pushed and writeDb is awaited.
AddManualRead(p) ==
  /\ Resumes(p, "add", "read")
  /\ Awaits(p, [req[p] EXCEPT !.pc = "write", !.snap = readDb])
  /\ UNCHANGED <<db, clock, nextId, prevSync, env, sheet>>

\* The file is replaced.
AddManualWrite(p) ==
  /\ Resumes(p, "add", "write")
  /\ writeDb(PushManual(req[p].snap, req[p].entries))
  /\ Awaits(p, [req[p] EXCEPT !.pc = "respond"])
  /\ UNCHANGED <<clock, nextId, prevSync, env, sheet>>

\* writeDb resolves: 201 with the entry.
AddManualRespond(p) ==
  /\ Resumes(p, "add", "respond")
  /\ Ends(p, req[p], [status |-> 201, body |-> req[p].entries[1]])
  /\ UNCHANGED <<db, clock, nextId, prevSync, env, sheet>>

(* ------------- POST /api/manual-investments/import (import-manual) ---- *)

\* rows.map((row) => normalizeManualEntry(row)): the results (a) in row
\* order, the k-th accepted row taking the k-th uuid from n on; threw when
\* a row makes the normalizer throw, where the map stops.
RECURSIVE MapNormalize(_, _, _)
MapNormalize(rows, n, now) ==
  IF rows = <<>> THEN [threw |-> FALSE, a |-> <<>>]
  ELSE LET e == normalizeManualEntry(Head(rows), Uuid(n), now) IN
       IF e = Threw THEN [threw |-> TRUE, a |-> <<>>]
       ELSE LET rest == MapNormalize(Tail(rows), IF e = Null THEN n ELSE n + 1, now) IN
            [rest EXCEPT !.a = <<e>> \o @]

\* .filter(Boolean) on the normalizer's results.
FilterBoolean(es) == SelectSeq(es, LAMBDA e : e # Null)

\* Array.isArray(v)
IsArray(v) == v.t = "array"

\* The handler is called: it checks rows, normalizes every row and, with
\* at least one accepted, awaits readDb.  It has no catch block.
ImportManual(p, body) ==
  /\ Free(p)
  /\ LET r == Called("import", body)
         rows == Field(body, "rows")
     IN
     IF ~IsArray(rows) \/ Len(rows.a) = 0
     THEN /\ Ends(p, r, [status |-> 400, error |-> "rows"])
          /\ UNCHANGED nextId
     ELSE LET mapped == MapNormalize(rows.a, nextId, Iso(clock))
              entries == FilterBoolean(mapped.a)
          IN
          IF mapped.threw
          THEN /\ Ends(p, r, Uncaught)
               /\ UNCHANGED nextId
          ELSE /\ nextId' = nextId + Len(entries)
               /\ IF Len(entries) = 0
                  THEN Ends(p, r, [status |-> 400, error |-> "none valid"])
                  ELSE Awaits(p, [r EXCEPT !.pc = "read", !.entries = entries])
  /\ UNCHANGED <<db, clock, prevSync, env, sheet>>

\* readDb resolves: the entries are pushed and writeDb is awaited.
ImportManualRead(p) ==
  /\ Resumes(p, "import", "read")
  /\ Awaits(p, [req[p] EXCEPT !.pc = "write", !.snap = readDb])
  /\ UNCHANGED <<db, clock, nextId, prevSync, env, sheet>>

ImportManualWrite(p) ==
  /\ Resumes(p, "import", "write")
  /\ writeDb(PushManual(req[p].snap, req[p].entries))
  /\ Awaits(p, [req[p] EXCEPT !.pc = "respond"])
  /\ UNCHANGED <<clock, nextId, prevSync, env, sheet>>

\* writeDb resolves: 201 with the count and the entries.
ImportManualRespond(p) ==
  /\ Resumes(p, "import", "respond")
  /\ Ends(p, req[p], [status |-> 201, imported |-> Len(req[p].entries),
                      entries |-> req[p].entries])
  /\ UNCHANGED <<db, clock, nextId, prevSync, env, sheet>>

(* ------------- DELETE /api/manual-investments/:id (delete-manual) ----- *)

\* The handler is called: readDb is awaited.
DeleteManual(p, id) ==
  /\ Free(p)
  /\ Awaits(p, [Called("delete", id) EXCEPT !.pc = "read"])
  /\ UNCHANGED <<db, clock, nextId, prevSync, env, sheet>>

\* db.manualInvestments.filter((x) => x.id !== id)
FilterOut(list, id) == SelectSeq(list, LAMBDA x : x.id # id)

\* The callback reads x.id: it throws on a null element.
HasNullEntry(list) == \E i \in 1..Len(list) : list[i] = Null

\* readDb resolves: the list is filtered and writeDb is awaited.  The
\* handler has no catch block.
DeleteManualRead(p) ==
  /\ Resumes(p, "delete", "read")
  /\ IF HasNullEntry(readDb.manualInvestments)
     THEN Ends(p, req[p], Uncaught)
     ELSE Awaits(p, [req[p] EXCEPT !.pc = "write", !.snap = readDb])
  /\ UNCHANGED <<db, clock, nextId, prevSync, env, sheet>>

DeleteManualWrite(p) ==
  /\ Resumes(p, "delete", "write")
  /\ writeDb([req[p].snap EXCEPT !.manualInvestments = FilterOut(@, req[p].in)])
  /\ Awaits(p, [req[p] EXCEPT !.pc = "respond"])
  /\ UNCHANGED <<clock, nextId, prevSync, env, sheet>>

\* writeDb resolves: removed tells whether the list got shorter.
DeleteManualRespond(p) ==
  /\ Resumes(p, "delete", "respond")
  /\ LET before == Len(req[p].snap.manualInvestments)
         after == Len(FilterOut(req[p].snap.manualInvestments, req[p].in))
     IN Ends(p, req[p], [status |-> 200, removed |-> before # after])
  /\ UNCHANGED <<db, clock, nextId, prevSync, env, sheet>>

(* -------- POST /api/plaid/exchange_public_token (exchange-credential) - *)

ConnectedAccount ==
  <<"C", "o", "n", "n", "e", "c", "t", "e", "d", " ", "a", "c", "c", "o", "u", "n", "t">>

\* The handler is called: without a publicToken it refuses, with one it
\* awaits the provider's itemPublicTokenExchange.
ExchangePublicToken(p, body) ==
  /\ Free(p)
  /\ LET r == Called("exchange", body) IN
     IF ~Truthy(Field(body, "publicToken"))
     THEN Ends(p, r, [status |-> 400])
     ELSE Awaits(p, [r EXCEPT !.pc = "exchange"])
  /\ UNCHANGED <<db, clock, nextId, prevSync, env, sheet>>

\* The provider answers with an access token: readDb is awaited.
ExchangeReturned(p, accessToken) ==
  /\ Resumes(p, "exchange", "exchange")
  /\ Awaits(p, [req[p] EXCEPT !.pc = "read", !.token = accessToken])
  /\ UNCHANGED <<db, clock, nextId, prevSync, env, sheet>>

\* The provider call throws: the catch block answers 500.
ExchangeFailed(p) ==
  /\ Resumes(p, "exchange", "exchange")
  /\ Ends(p, req[p], [status |-> 500])
  /\ UNCHANGED <<db, clock, nextId, prevSync, env, sheet>>

\* The item the handler pushes.
NewItem(body, accessToken, id, now) ==
  [id |-> id,
   institutionName |-> OrElse(Field(body, "institutionName"), Str(ConnectedAccount)).s,
   accessToken |-> accessToken,
   createdAt |-> now]

\* readDb resolves: the item is pushed and writeDb is awaited.
ExchangeRead(p) ==
  /\ Resumes(p, "exchange", "read")
  /\ Awaits(p, [req[p] EXCEPT
                  !.pc = "write", !.snap = readDb,
                  !.entries = <<NewItem(req[p].in, req[p].token, Uuid(nextId),
                                        Iso(clock))>>])
  /\ nextId' = nextId + 1
  /\ UNCHANGED <<db, clock, prevSync, env, sheet>>

\* (An exchange that keeps only the new item.)
ReplaceItems(snap, entries) == [snap EXCEPT !.plaidItems = entries]

\* The document the exchange handler hands to writeDb.
PushItem(snap, entries) == [snap EXCEPT !.plaidItems = @ \o entries]

ExchangeWrite(p) ==
  /\ Resumes(p, "exchange", "write")
  /\ writeDb(PushItem(req[p].snap, req[p].entries))
  /\ Awaits(p, [req[p] EXCEPT !.pc = "respond"])
  /\ UNCHANGED <<clock, nextId, prevSync, env, sheet>>

ExchangeRespond(p) ==
  /\ Resumes(p, "exchange", "respond")
  /\ Ends(p, req[p], [status |-> 200, ok |-> TRUE])
  /\ UNCHANGED <<db, clock, nextId, prevSync, env, sheet>>

(* ------------------ POST /api/sync/plaid (sync-holdings) -------------- *)

NotAvailable == <<"N", "/", "A">>

UnknownSecurity ==
  <<"U", "n", "k", "n", "o", "w", "n", " ", "s", "e", "c", "u", "r", "i", "t", "y">>

\* Object.fromEntries(list.map((x) => [x[key], x]))[id] || {}: the last
\* element of the list with that key, or an empty object.
ById(list, key, id) ==
  LET found == {i \in 1..Len(list) : JsString(Field(list[i], key)) = JsString(id)} IN
  IF found = {} THEN [t |-> "object"]
  ELSE list[CHOOSE i \in found : \A j \in found : j <= i]

\* (An identifier taken from the time of the sync.)
HoldingIdByTime(itemId, accountId, securityId) ==
  itemId \o <<":", ToString(clock)>>

\* The identifier template `${item.id}:${account_id}:${security_id}`.
HoldingId(itemId, accountId, securityId) ==
  itemId \o <<":">> \o JsString(accountId) \o <<":">> \o JsString(securityId)

\* The holding pushed for one raw holding of one item's answer.
ToHolding(item, data, holding, now) ==
  LET account == ById(data.accounts, "account_id", Field(holding, "account_id"))
      security == ById(data.securities, "security_id", Field(holding, "security_id"))
  IN [id |-> HoldingId(item.id, Field(holding, "account_id"),
                       Field(holding, "security_id")),
      itemId |-> item.id,
      accountName |-> OrElse(Field(account, "name"), Str(item.institutionName)).s,
      symbol |-> OrElse(Field(security, "ticker_symbol"), Str(NotAvailable)).s,
      name |-> OrElse(Field(security, "name"), Str(UnknownSecurity)).s,
      quantity |-> toNumber(Field(holding, "quantity")),
      price |-> toNumber(Field(holding, "institution_price")),
      value |-> toNumber(Field(holding, "institution_value")),
      costBasis |-> toNumber(Field(holding, "cost_basis")),
      lastUpdated |-> now]

\* (A loop that skips the raw holdings whose account is not in the answer.)
ItemHoldingsKnown(item, data, now) ==
  LET known == SelectSeq(data.holdings,
                         LAMBDA h : \E i \in 1..Len(data.accounts) :
                                      data.accounts[i].account_id = Field(h, "account_id"))
  IN [i \in 1..Len(known) |-> ToHolding(item, data, known[i], now)]

\* The inner loop: one holding per raw holding, in the answer's order.
ItemHoldings(item, data, now) ==
  [i \in 1..Len(data.holdings) |-> ToHolding(item, data, data.holdings[i], now)]

\* The handler is called: readDb is awaited.
SyncPlaid(p) ==
  /\ Free(p)
  /\ Awaits(p, [Called("sync", Undef) EXCEPT !.pc = "read"])
  /\ UNCHANGED <<db, clock, nextId, prevSync, env, sheet>>

\* readDb resolves: with no item the loop is skipped and writeDb awaited,
\* otherwise the first item's investmentsHoldingsGet is awaited.
SyncRead(p) ==
  /\ Resumes(p, "sync", "read")
  /\ Awaits(p, IF readDb.plaidItems = <<>>
               THEN [req[p] EXCEPT !.pc = "write", !.snap = readDb, !.at = Iso(clock)]
               ELSE [req[p] EXCEPT !.pc = "fetch", !.snap = readDb])
  /\ UNCHANGED <<db, clock, nextId, prevSync, env, sheet>>

\* The provider answers for the item the loop is at: its holdings are
\* pushed; then the next item's call is awaited or, after the last item,
\* writeDb is.
SyncFetched(p, data) ==
  /\ Resumes(p, "sync", "fetch")
  /\ LET r == req[p]
         item == r.snap.plaidItems[Len(r.seen) + 1]
         last == Len(r.seen) + 1 = Len(r.snap.plaidItems)
     IN Awaits(p, [r EXCEPT !.holdings = @ \o ItemHoldings(item, data, Iso(clock)),
                            !.seen = Append(@, data),
                            !.pc = IF last THEN "write" ELSE "fetch",
                            !.at = IF last THEN Iso(clock) ELSE Null])
  /\ UNCHANGED <<db, clock, nextId, prevSync, env, sheet>>

\* (A catch block that commits the holdings fetched before the failure.)
SyncCatchPartial(r) == db' = [db EXCEPT !.plaidHoldings = r.holdings]

\* What the catch block does to the store, with the handler's locals r:
\* nothing.
SyncCatch(r) == UNCHANGED db

\* The provider call for the item the loop is at throws: the catch block
\* answers 500.
SyncFailed(p) ==
  /\ Resumes(p, "sync", "fetch")
  /\ SyncCatch(req[p])
  /\ Ends(p, req[p], [status |-> 500])
  /\ UNCHANGED <<clock, nextId, prevSync, env, sheet>>

\* (A sync that re-reads the document before it writes.)
SyncDocFresh(snap, holdings, at) ==
  [db EXCEPT !.plaidHoldings = holdings, !.lastSyncAt = at]

\* (A sync that adds its holdings to the stored ones.)
SyncDocMerge(snap, holdings, at) ==
  [snap EXCEPT !.plaidHoldings = @ \o holdings, !.lastSyncAt = at]

\* (A sync that stores its holdings without the date.)
SyncDocUnstamped(snap, holdings, at) ==
  [snap EXCEPT !.plaidHoldings = holdings]

\* The document the sync handler hands to writeDb.
SyncDoc(snap, holdings, at) ==
  [snap EXCEPT !.plaidHoldings = holdings, !.lastSyncAt = at]

\* A holding without its lastUpdated stamp.
Unstamped(h) == [k \in DOMAIN h \ {"lastUpdated"} |-> h[k]]

\* The file is replaced.  prevSync (history) keeps what the latest sync to
\* commit had read from the store and the provider, and what it stored.
SyncWrite(p) ==
  /\ Resumes(p, "sync", "write")
  /\ writeDb(SyncDoc(req[p].snap, req[p].holdings, req[p].at))
  /\ prevSync' = [items |-> req[p].snap.plaidItems, seen |-> req[p].seen,
                  holdings |-> [i \in 1..Len(req[p].holdings) |->
                                  Unstamped(req[p].holdings[i])]]
  /\ Awaits(p, [req[p] EXCEPT !.pc = "respond"])
  /\ UNCHANGED <<clock, nextId, env, sheet>>

\* writeDb resolves: the count and the date.
SyncRespond(p) ==
  /\ Resumes(p, "sync", "respond")
  /\ Ends(p, req[p], [status |-> 200, ok |-> TRUE,
                      syncedHoldings |-> Len(req[p].holdings),
                      syncedAt |-> req[p].at])
  /\ UNCHANGED <<db, clock, nextId, prevSync, env, sheet>>

(* ------------------- GET /api/portfolio (list-portfolio) -------------- *)

plaidRow(holding) ==
  [id |-> holding.id, source |-> "Plaid", account |-> holding.accountName,
   symbol |-> holding.symbol, name |-> holding.name, quantity |-> holding.quantity,
   price |-> holding.price, value |-> holding.value, costBasis |-> holding.costBasis,
   lastUpdated |-> holding.lastUpdated]

manualRow(manual) ==
  [id |-> manual.id, source |-> "Manual", account |-> manual.account,
   symbol |-> manual.symbol, name |-> manual.name, quantity |-> manual.quantity,
   price |-> manual.price, value |-> manual.quantity * manual.price,
   costBasis |-> manual.costBasis, lastUpdated |-> manual.updatedAt]

\* (A view that lists a symbol once: a manual record whose symbol an earlier
\* manual record has is left out.)
mergedOncePerSymbol(d) ==
  IF \E i \in 1..Len(d.manualInvestments) : d.manualInvestments[i] = [t |-> "null"]
  THEN [threw |-> TRUE, a |-> <<>>]
  ELSE LET ms == d.manualInvestments
           keep == {i \in 1..Len(ms) : \A j \in 1..(i - 1) : ms[j].symbol # ms[i].symbol}
           RECURSIVE Kept(_)
           Kept(i) == IF i > Len(ms) THEN <<>>
                      ELSE (IF i \in keep THEN <<manualRow(ms[i])>> ELSE <<>>) \o Kept(i + 1)
       IN [threw |-> FALSE,
           a |-> [i \in 1..Len(d.plaidHoldings) |-> plaidRow(d.plaidHoldings[i])]
                 \o Kept(1)]

\* mergedPositions(db): the rows (a); threw when a manual entry is null
\* (manual.id).
mergedPositions(d) ==
  IF HasNullEntry(d.manualInvestments) THEN [threw |-> TRUE, a |-> <<>>]
  ELSE [threw |-> FALSE,
        a |-> [i \in 1..Len(d.plaidHoldings) |-> plaidRow(d.plaidHoldings[i])]
              \o [i \in 1..Len(d.manualInvestments) |->
                    manualRow(d.manualInvestments[i])]]

\* positions.reduce((sum, row) => sum + toNumber(row.value), 0)
RECURSIVE SumValues(_)
SumValues(rows) ==
  IF rows = <<>> THEN 0
  ELSE SumValues(SubSeq(rows, 1, Len(rows) - 1)) + toNumber(Num(rows[Len(rows)].value))

\* The text of row[key] for the two keys the handler groups by.
KeyText(row, key) ==
  IF key = "source"
  THEN (IF row.source = "Plaid" THEN <<"P", "l", "a", "i", "d">>
        ELSE <<"M", "a", "n", "u", "a", "l">>)
  ELSE row.account

Unknown == <<"U", "n", "k", "n", "o", "w", "n">>

\* Names every object literal inherits from Object.prototype with a
\* function as value (among them).
ObjectPrototype ==
  {<<"c", "o", "n", "s", "t", "r", "u", "c", "t", "o", "r">>,
   <<"t", "o", "S", "t", "r", "i", "n", "g">>,
   <<"v", "a", "l", "u", "e", "O", "f">>}

Function == [t |-> "function"]

\* acc[bucket]: the accumulator's own entry (acc lists its own entries in
\* the order they were set); without one, what the accumulator, made by the
\* literal {}, inherits; without that, undefined.
Lookup(acc, bucket) ==
  IF \E i \in 1..Len(acc) : acc[i].key = bucket
  THEN acc[CHOOSE i \in 1..Len(acc) : acc[i].key = bucket].value
  ELSE IF bucket \in ObjectPrototype THEN Function
  ELSE Undef

\* (acc[bucket] || 0) + n: a sum of numbers, or, when acc[bucket] is no
\* number, the concatenation of its text and the numeral.
PlusNumber(had, n) ==
  CASE had.t = "number" -> Num(had.n + n)
    [] had.t = "string" -> Str(had.s \o <<ToString(n)>>)
    [] had.t = "function" -> Str(<<"function Object() { [native code] }", ToString(n)>>)
    [] OTHER -> Num(n)

\* acc[bucket] = value
Assign(acc, bucket, value) ==
  IF \E i \in 1..Len(acc) : acc[i].key = bucket
  THEN [i \in 1..Len(acc) |-> IF acc[i].key = bucket
                              THEN [key |-> bucket, value |-> value] ELSE acc[i]]
  ELSE Append(acc, [key |-> bucket, value |-> value])

\* groupBy(rows, key): rows.reduce from {}.
RECURSIVE groupBy(_, _)
groupBy(rows, key) ==
  IF rows = <<>> THEN <<>>
  ELSE LET acc == groupBy(SubSeq(rows, 1, Len(rows) - 1), key)
           row == rows[Len(rows)]
           bucket == IF KeyText(row, key) = <<>> THEN Unknown ELSE KeyText(row, key)
           had == IF Truthy(Lookup(acc, bucket)) \/ Lookup(acc, bucket) = Function
                  THEN Lookup(acc, bucket) ELSE Num(0)
       IN Assign(acc, bucket, PlusNumber(had, toNumber(Num(row.value))))

\* The handler is called: readDb is awaited.
Portfolio(p) ==
  /\ Free(p)
  /\ Awaits(p, [Called("portfolio", Undef) EXCEPT !.pc = "read"])
  /\ UNCHANGED <<db, clock, nextId, prevSync, env, sheet>>

\* readDb resolves: the view is computed and sent.  The handler has no
\* catch block.
PortfolioRead(p) ==
  /\ Resumes(p, "portfolio", "read")
  /\ LET positions == mergedPositions(readDb) IN
     IF positions.threw THEN Ends(p, req[p], Uncaught)
     ELSE Ends(p, [req[p] EXCEPT !.snap = readDb],
               [status |-> 200,
                totalValue |-> SumValues(positions.a),
                positions |-> positions.a,
                breakdownBySource |-> groupBy(positions.a, "source"),
                breakdownByAccount |-> groupBy(positions.a, "account"),
                lastPlaidSyncAt |-> readDb.lastSyncAt])
  /\ UNCHANGED <<db, clock, nextId, prevSync, env, sheet>>

(* ------------- POST /api/google-sheets/sync (publish-to-spreadsheet) -- *)

\* The first row of every update.
Header ==
  <<"Source", "Account", "Symbol", "Name", "Quantity", "Price", "Value",
    "Cost Basis", "Last Updated">>

\* The row of one position.
SheetRow(p) ==
  <<p.source, p.account, p.symbol, p.name, p.quantity, p.price, p.value,
    p.costBasis, p.lastUpdated>>

\* (Rows without the header.)
SheetRowsBare(positions) ==
  [i \in 1..Len(positions) |-> SheetRow(positions[i])]

\* rows: the header, then one row per position in the order of positions.
SheetRows(positions) ==
  <<Header>> \o [i \in 1..Len(positions) |-> SheetRow(positions[i])]

\* (A check of the service account alone.)
MissingAccountOnly(e) == ~Truthy(e.GOOGLE_SERVICE_ACCOUNT_JSON)

\* !process.env.GOOGLE_SERVICE_ACCOUNT_JSON || !process.env.GOOGLE_SHEET_ID
MissingGoogleConfig(e) ==
  ~Truthy(e.GOOGLE_SERVICE_ACCOUNT_JSON) \/ ~Truthy(e.GOOGLE_SHEET_ID)

\* The handler is called: without the two settings it refuses, with them
\* it awaits readDb.
GoogleSheetsSync(p) ==
  /\ Free(p)
  /\ LET r == Called("sheets", Undef) IN
     IF MissingGoogleConfig(env)
     THEN Ends(p, r, [status |-> 400])
     ELSE Awaits(p, [r EXCEPT !.pc = "read"])
  /\ UNCHANGED <<db, clock, nextId, prevSync, env, sheet>>

\* readDb resolves: the rows are built and the update of the sheet is
\* awaited.  An exception of mergedPositions goes to the catch block.
GoogleSheetsRead(p) ==
  /\ Resumes(p, "sheets", "read")
  /\ LET positions == mergedPositions(readDb) IN
     IF positions.threw THEN Ends(p, req[p], [status |-> 500])
     ELSE Awaits(p, [req[p] EXCEPT !.pc = "update", !.snap = readDb,
                                   !.entries = SheetRows(positions.a)])
  /\ UNCHANGED <<db, clock, nextId, prevSync, env, sheet>>

\* The update is done: the range holds the rows; rowsWritten is their
\* number without the header.
GoogleSheetsUpdated(p) ==
  /\ Resumes(p, "sheets", "update")
  /\ sheet' = [spreadsheetId |-> JsString(env.GOOGLE_SHEET_ID), range |-> "Portfolio!A1",
               values |-> req[p].entries]
  /\ Ends(p, req[p], [status |-> 200, ok |-> TRUE,
                      rowsWritten |-> Len(req[p].entries) - 1])
  /\ UNCHANGED <<db, clock, nextId, prevSync, env>>

\* The update throws: the catch block answers 500.
GoogleSheetsFailed(p) ==
  /\ Resumes(p, "sheets", "update")
  /\ Ends(p, req[p], [status |-> 500])
  /\ UNCHANGED <<db, clock, nextId, prevSync, env, sheet>>

(* ------------------- requests and provider answers -------------------- *)

\* The spec's example row: padded, lower-case symbol, numerals as strings.
RowA ==
  Obj([account |-> Str(<<"A">>), symbol |-> Str(<<" ", "x">>),
       name |-> Str(<<"X", " ">>), quantity |-> Str(<<"2">>),
       price |-> Str(<<"1", "0">>)])

\* Account is blank: non-empty before trimming, empty after.
RowBlank ==
  Obj([account |-> Str(<<" ">>), symbol |-> Str(<<"y">>), name |-> Str(<<"Y">>),
       quantity |-> Num(1), price |-> Num(3)])

\* Account is the empty string.
RowEmpty ==
  Obj([account |-> Str(<<>>), symbol |-> Str(<<"y">>), name |-> Str(<<"Y">>)])

\* Name is missing; the price is no numeral.
RowNoName ==
  Obj([account |-> Str(<<"A">>), symbol |-> Str(<<"x">>), price |-> Str(<<"a">>)])

\* A valid row whose account label is the word constructor.
RowCtor ==
  Obj([account |-> Str(<<"c", "o", "n", "s", "t", "r", "u", "c", "t", "o", "r">>),
       symbol |-> Str(<<"x">>), name |-> Str(<<"X">>), quantity |-> Num(2),
       price |-> Num(10)])

\* A second valid row: no quantity, a cost basis.
RowB ==
  Obj([account |-> Str(<<"B", " ", "b">>), symbol |-> Str(<<"y">>),
       name |-> Str(<<"Y">>), price |-> Num(3), costBasis |-> Str(<<" ", "7">>)])

RECURSIVE SeqsUpTo(_, _)
SeqsUpTo(S, n) ==
  IF n = 0 THEN {<<>>}
  ELSE LET shorter == SeqsUpTo(S, n - 1) IN
       shorter \cup {Append(s, x) : s \in shorter, x \in S}

\* Bodies with a rows array over the rows in S, and one with no rows.
ImportBodies(S) ==
  {Obj([rows |-> Arr(a)]) : a \in SeqsUpTo(S, MaxRows)} \cup {[t |-> "object"]}

NamedExchange == Obj([publicToken |-> Str(<<"p">>), institutionName |-> Str(<<"B">>)])

UnnamedExchange == Obj([publicToken |-> Str(<<"p">>)])

AccessTokens == {Str(<<"t">>)}

\* One account, one security, one holding of it.
DataOne ==
  [accounts |-> <<Obj([account_id |-> Str(<<"a">>), name |-> Str(<<"I", "R", "A">>)])>>,
   securities |-> <<Obj([security_id |-> Str(<<"s">>), ticker_symbol |-> Str(<<"V">>),
                         name |-> Str(<<"V", "T">>)])>>,
   holdings |-> <<Obj([account_id |-> Str(<<"a">>), security_id |-> Str(<<"s">>),
                       quantity |-> Num(2), institution_price |-> Num(10),
                       institution_value |-> Num(20), cost_basis |-> Num(15)])>>]

\* A holding whose account and security are not in the answer, with a
\* null cost basis.
DataOrphan ==
  [accounts |-> <<>>,
   securities |-> <<Obj([security_id |-> Str(<<"s">>), ticker_symbol |-> Null,
                         name |-> Str(<<"V", "T">>)])>>,
   holdings |-> <<Obj([account_id |-> Str(<<"b">>), security_id |-> Str(<<"z">>),
                       quantity |-> Num(1), institution_price |-> Num(5),
                       institution_value |-> Num(5), cost_basis |-> Null])>>]

\* Two raw holdings of the same security in the same account (two lots).
DataTwin ==
  [accounts |-> <<Obj([account_id |-> Str(<<"a">>), name |-> Str(<<"I", "R", "A">>)])>>,
   securities |-> <<Obj([security_id |-> Str(<<"s">>), ticker_symbol |-> Str(<<"V">>),
                         name |-> Str(<<"V", "T">>)])>>,
   holdings |-> <<Obj([account_id |-> Str(<<"a">>), security_id |-> Str(<<"s">>),
                       quantity |-> Num(2), institution_price |-> Num(10),
                       institution_value |-> Num(20), cost_basis |-> Num(15)]),
                  Obj([account_id |-> Str(<<"a">>), security_id |-> Str(<<"s">>),
                       quantity |-> Num(1), institution_price |-> Num(10),
                       institution_value |-> Num(10), cost_basis |-> Num(9)])>>]

Answers == {DataOne, DataOrphan, DataTwin}

(* --------------------------- specifications --------------------------- *)

\* A handler in flight resumes from its await.
Resume(p) ==
  \/ AddManualRead(p)
  \/ AddManualWrite(p)
  \/ AddManualRespond(p)
  \/ ImportManualRead(p)
  \/ ImportManualWrite(p)
  \/ ImportManualRespond(p)
  \/ DeleteManualRead(p)
  \/ DeleteManualWrite(p)
  \/ DeleteManualRespond(p)
  \/ \E token \in AccessTokens : ExchangeReturned(p, token)
  \/ ExchangeFailed(p)
  \/ ExchangeRead(p)
  \/ ExchangeWrite(p)
  \/ ExchangeRespond(p)
  \/ SyncRead(p)
  \/ \E data \in Answers : SyncFetched(p, data)
  \/ SyncFailed(p)
  \/ SyncWrite(p)
  \/ SyncRespond(p)
  \/ PortfolioRead(p)
  \/ GoogleSheetsRead(p)
  \/ GoogleSheetsUpdated(p)
  \/ GoogleSheetsFailed(p)

\* Requests arrive at any time, also while others are in flight.
Next ==
  \/ Tick
  \/ \E p \in Procs :
       \/ \E body \in {RowA, RowBlank} : AddManual(p, body)
       \/ \E body \in ImportBodies({RowA}) : ImportManual(p, body)
       \/ \E n \in 1..nextId : DeleteManual(p, Uuid(n))
       \/ \E body \in {NamedExchange, [t |-> "object"]} : ExchangePublicToken(p, body)
       \/ SyncPlaid(p)
       \/ Portfolio(p)
       \/ GoogleSheetsSync(p)
       \/ Resume(p)

Spec == Init /\ [][Next]_vars

\* No request is in flight.
Quiet == \A q \in Procs : req[q].pc = "idle"

\* One request at a time: each arrives when the one before has ended.
NextSeq ==
  \/ Tick
  \/ \E p \in Procs :
       \/ Quiet /\ \E body \in {RowA, RowB, RowBlank, RowEmpty, RowNoName, RowCtor} :
                     AddManual(p, body)
       \/ Quiet /\ \E body \in ImportBodies({RowA, RowB, RowEmpty, Null}) :
                     ImportManual(p, body)
       \/ Quiet /\ \E n \in 1..nextId : DeleteManual(p, Uuid(n))
       \/ Quiet /\ \E body \in {NamedExchange, UnnamedExchange, [t |-> "object"]} :
                     ExchangePublicToken(p, body)
       \/ Quiet /\ SyncPlaid(p)
       \/ Quiet /\ Portfolio(p)
       \/ Quiet /\ GoogleSheetsSync(p)
       \/ Resume(p)

SpecSeq == Init /\ [][NextSeq]_vars

\* The server starts on a db.json left by an earlier run (ensureDb keeps a
\* file that exists): one linked account, nothing synced yet.
InitLinked ==
  /\ db = [starter EXCEPT !.plaidItems =
             <<NewItem(NamedExchange, Str(<<"t">>), Uuid(1), Iso(0))>>]
  /\ req = [p \in Procs |-> NoRequest]
  /\ out = NoResponse
  /\ clock = 0
  /\ nextId = 2
  /\ served = 0
  /\ prevSync = Null
  /\ env \in Envs
  /\ sheet = Null

SpecLinked == InitLinked /\ [][NextSeq]_vars

(* ------------------------------- claims ------------------------------- *)

\* Slot p's handler takes a step that ends it.
EndsNow(p) == req[p].pc # "idle" /\ req'[p].pc = "idle"

\* Slot p's handler takes the step in which its writeDb replaces the file.
WritesNow(p) == req[p].pc = "write" /\ req'[p].pc = "respond"

\* C1: a sync whose provider call fails for any item, the first or a later
\* one, answers with a failure and has changed nothing in the store: no
\* step of a sync before its writeDb changes the document, and the step in
\* which the call fails leaves holdings and lastSyncAt as they were.
C1_SyncAllOrNothing ==
  [][\A p \in Procs :
       /\ (req[p].op = "sync" /\ req[p].pc \in {"read", "fetch"} /\ req'[p] # req[p])
            => db' = db
       /\ (Resumes(p, "sync", "fetch") /\ EndsNow(p))
            => /\ out'.op = "sync" /\ out'.res.status = 500
               /\ db'.plaidHoldings = db.plaidHoldings
               /\ db'.lastSyncAt = db.lastSyncAt]_vars

\* A sync over two items has failed on the second, after the first was
\* fetched.
C1_Witness ==
  /\ out.op = "sync" /\ out.res.status = 500
  /\ Len(out.seen) = 1 /\ out.seen[1].holdings # <<>>
  /\ Len(db.plaidItems) = 2
  /\ db.plaidHoldings = <<>> /\ db.lastSyncAt = Null

\* A required key of a raw entry is missing, empty, or empty once trimmed.
LacksKey(raw) ==
  \E k \in {"account", "symbol", "name"} :
    \/ Field(raw, k).t # "string"
    \/ Trim(Field(raw, k).s) = <<>>

\* C2: an add whose account, symbol or name is missing, empty or blank is
\* rejected with 400 and never gets to read or write the store.
C2_AddRejectsMissing ==
  /\ (out.op = "add" /\ LacksKey(out.in)) => out.res.status = 400
  /\ \A p \in Procs : req[p].op = "add" => ~LacksKey(req[p].in)

\* A valid manual record: an object whose account, symbol and name are
\* non-empty.
ValidRecord(e) ==
  /\ e # Null
  /\ e.account # <<>> /\ e.symbol # <<>> /\ e.name # <<>>

\* C3: every element of the stored manual list is a valid record.
C3_ManualRecordsValid ==
  \A i \in 1..Len(db.manualInvestments) : ValidRecord(db.manualInvestments[i])

\* C4: a write is based on the document its handler read, not on the
\* document in the store: what the handler does not change is written back
\* as it was read, so that changes written since the read are lost.
C4_LaterWriteWins ==
  [][\A p \in Procs : WritesNow(p) =>
       LET r == req[p] IN
       /\ r.op \notin {"add", "import", "delete"}
            => db'.manualInvestments = r.snap.manualInvestments
       /\ r.op # "exchange" => db'.plaidItems = r.snap.plaidItems
       /\ r.op # "sync" => /\ db'.plaidHoldings = r.snap.plaidHoldings
                           /\ db'.lastSyncAt = r.snap.lastSyncAt]_vars

\* The record e is in the stored manual list.
Stored(e) == \E i \in 1..Len(db.manualInvestments) : db.manualInvestments[i] = e

\* An add has answered 201 with its record, and a sync that had read the
\* store before the add's write has since written: the record is gone.
C4_Witness ==
  /\ out.op = "add" /\ out.res.status = 201 /\ out.res.body # Null
  /\ ~Stored(out.res.body)
  /\ \E p \in Procs :
       /\ Resumes(p, "sync", "respond")
       /\ db.manualInvestments = req[p].snap.manualInvestments

\* Every item of the list before is in the list after, unchanged.
ItemsKept(before, after) ==
  \A i \in 1..Len(before) : \E j \in 1..Len(after) : after[j] = before[i]

\* C5 as stated: no step removes or alters a stored linked account.
C5_ItemsNeverLost == [][ItemsKept(db.plaidItems, db'.plaidItems)]_vars

\* C5 amended: a write by a handler whose document is still the one in the
\* store (no other write came between its read and its write) keeps every
\* stored linked account, and a step that is not a write keeps them all.
C5_ItemsKeptWithoutOverlap ==
  [][/\ (\A p \in Procs : ~WritesNow(p)) => db'.plaidItems = db.plaidItems
     /\ \A p \in Procs : (WritesNow(p) /\ req[p].snap = db)
          => ItemsKept(db.plaidItems, db'.plaidItems)]_vars

\* A second exchange has written with the first one's item in the store.
C5_Witness ==
  \E p \in Procs :
    /\ Resumes(p, "exchange", "respond")
    /\ Len(req[p].snap.plaidItems) = 1
    /\ Len(db.plaidItems) = 2
    /\ db.plaidItems[1] = req[p].snap.plaidItems[1]

\* The raw holdings of one sync pass, each with its item: item by item in
\* the order of the items, and within an item in the order of the answer.
RECURSIVE PassOrder(_, _)
PassOrder(items, seen) ==
  IF seen = <<>> THEN <<>>
  ELSE LET n == Len(seen) IN
       PassOrder(items, SubSeq(seen, 1, n - 1))
       \o [j \in 1..Len(seen[n].holdings) |->
             [item |-> items[n], data |-> seen[n], raw |-> seen[n].holdings[j]]]

\* C6: the write of a sync replaces the stored holdings by exactly the
\* holdings of this pass, one per raw holding in pass order, nothing of the
\* old list kept, and sets lastSyncAt in the same write; no other step of a
\* sync changes the document.
C6_SyncReplacesHoldings ==
  [][\A p \in Procs :
       /\ (req[p].op = "sync" /\ req'[p] # req[p] /\ ~WritesNow(p)) => db' = db
       /\ (req[p].op = "sync" /\ WritesNow(p)) =>
            LET order == PassOrder(req[p].snap.plaidItems, req[p].seen)
                stored == db'.plaidHoldings
            IN /\ Len(stored) = Len(order)
               /\ \A k \in 1..Len(order) :
                    /\ stored[k].itemId = order[k].item.id
                    /\ stored[k].id = order[k].item.id \o <<":">>
                                        \o order[k].raw.account_id.s \o <<":">>
                                        \o order[k].raw.security_id.s
                    /\ stored[k].quantity = order[k].raw.quantity.n
                    /\ stored[k].value = order[k].raw.institution_value.n
               /\ db'.lastSyncAt = req[p].at
               /\ req[p].at # Null]_vars

\* A sync has written over the holdings of an earlier sync, whose answer
\* was another one: the old holding is gone.
C6_Witness ==
  \E p \in Procs :
    /\ Resumes(p, "sync", "respond")
    /\ Len(req[p].snap.plaidHoldings) = 1
    /\ Len(db.plaidHoldings) = 1
    /\ db.plaidHoldings[1].id # req[p].snap.plaidHoldings[1].id
    /\ db.lastSyncAt = req[p].at

\* C7: a sync that read the same linked accounts and got the same answers
\* as the latest sync before it stores the same holdings: same identifiers
\* in the same order, same account name, symbol, name, quantity, price,
\* value and cost basis.
C7_SyncIdempotent ==
  [][\A p \in Procs :
       (/\ req[p].op = "sync" /\ WritesNow(p)
        /\ prevSync # Null
        /\ prevSync.items = req[p].snap.plaidItems
        /\ prevSync.seen = req[p].seen)
       => /\ Len(db'.plaidHoldings) = Len(prevSync.holdings)
          /\ \A k \in 1..Len(prevSync.holdings) :
               Unstamped(db'.plaidHoldings[k]) = prevSync.holdings[k]]_vars

\* A second sync has written after a first one that answered 200, with the
\* same answers from the provider, at a later time.
C7_Witness ==
  \E p \in Procs :
    /\ Resumes(p, "sync", "respond")
    /\ out.op = "sync" /\ out.res.status = 200
    /\ out.seen = req[p].seen /\ req[p].seen # <<>>
    /\ db.plaidHoldings # <<>>
    /\ out.res.syncedAt # req[p].at

\* The sum of value over the stored holdings.
RECURSIVE HoldingsValue(_)
HoldingsValue(hs) ==
  IF hs = <<>> THEN 0 ELSE hs[1].value + HoldingsValue(Tail(hs))

\* The sum of quantity * price over the stored manual records.
RECURSIVE ManualValue(_)
ManualValue(ms) ==
  IF ms = <<>> THEN 0 ELSE ms[1].quantity * ms[1].price + ManualValue(Tail(ms))

\* C8: list-portfolio answers, for the document it reads, with a
\* totalValue that is the sum of the holdings' values plus the sum of
\* quantity * price of the manual records.
C8_TotalValue ==
  [][\A p \in Procs :
       (Resumes(p, "portfolio", "read") /\ EndsNow(p))
       => /\ out'.res.status = 200
          /\ out'.res.totalValue = HoldingsValue(db.plaidHoldings)
                                     + ManualValue(db.manualInvestments)]_vars

\* The valid rows of a batch, in order.
ValidRows(rows) == SelectSeq(rows, LAMBDA row : ~LacksKey(row))

\* C9: an import whose batch has valid and invalid rows answers 201 with
\* imported = the number of valid rows and exactly their normalized
\* records, in row order.
C9_ImportKeepsValidRows ==
  (/\ out.op = "import"
   /\ IsArray(Field(out.in, "rows"))
   /\ ValidRows(out.in.rows.a) # <<>>
   /\ ValidRows(out.in.rows.a) # out.in.rows.a)
  => LET valid == ValidRows(out.in.rows.a) IN
     /\ out.res.status = 201
     /\ out.res.imported = Len(valid)
     /\ Len(out.res.entries) = Len(valid)
     /\ \A k \in 1..Len(valid) :
          /\ out.res.entries[k].account = Trim(valid[k].account.s)
          /\ out.res.entries[k].symbol = ToUpperCase(Trim(valid[k].symbol.s))
          /\ out.res.entries[k].name = Trim(valid[k].name.s)

\* No row of the body's batch is valid, or the body has no batch.
NoValidRow(body) ==
  \/ ~IsArray(Field(body, "rows"))
  \/ ValidRows(body.rows.a) = <<>>

\* C10: an import whose batch has no valid row, is empty or is no array
\* is answered with 400 and never gets to read or write the store.
C10_ImportRejectsAllInvalid ==
  /\ (out.op = "import" /\ NoValidRow(out.in)) => out.res.status = 400
  /\ \A p \in Procs : req[p].op = "import" => ~NoValidRow(req[p].in)

\* C11: a delete is answered with 200; removed tells whether the list the
\* handler read had a record with that id; the list it leaves in the store
\* is the one it read without that record, so that the id is in no later
\* view and a second delete of it reports removed false.
C11_DeleteReports ==
  [][\A p \in Procs :
       (req[p].op = "delete" /\ EndsNow(p)) =>
         /\ out'.res.status = 200
         /\ LET before == req[p].snap.manualInvestments
                there == \E i \in 1..Len(before) : before[i].id = req[p].in
            IN /\ out'.res.removed = there
               /\ ~there => db'.manualInvestments = before
               /\ \A i \in 1..Len(db'.manualInvestments) :
                    db'.manualInvestments[i].id # req[p].in]_vars

\* C12: every request that ends has been answered: no handler ends with an
\* exception that nothing caught.
C12_FailuresAnswered == out.op # "none" => out.res.status # 0

\* C13: the one step of a publish that changes the sheet is its update,
\* which puts at Portfolio!A1 the header row and then one row of nine cells
\* for each position of the merged view of the document read, in the order
\* of the view; the answer's rowsWritten is the number of positions.
C13_PublishRows ==
  [][\A p \in Procs :
       /\ (req'[p] # req[p]
           /\ ~(Resumes(p, "sheets", "update") /\ EndsNow(p) /\ out'.res.status = 200))
            => sheet' = sheet
       /\ (Resumes(p, "sheets", "update") /\ EndsNow(p) /\ out'.res.status = 200) =>
            LET view == mergedPositions(db).a
                N == Len(view)
            IN /\ sheet'.range = "Portfolio!A1"
               /\ Len(sheet'.values) = N + 1
               /\ sheet'.values[1] = <<"Source", "Account", "Symbol", "Name", "Quantity",
                                       "Price", "Value", "Cost Basis", "Last Updated">>
               /\ \A k \in 1..N :
                    /\ Len(sheet'.values[k + 1]) = 9
                    /\ sheet'.values[k + 1] =
                         <<view[k].source, view[k].account, view[k].symbol, view[k].name,
                           view[k].quantity, view[k].price, view[k].value,
                           view[k].costBasis, view[k].lastUpdated>>
               /\ out'.res.rowsWritten = N]_vars

\* A publish of a store with two positions has answered.
C13_Witness ==
  /\ out.op = "sheets" /\ out.res.status = 200 /\ out.res.rowsWritten = 2
  /\ sheet # Null /\ Len(sheet.values) = 3
  /\ Len(db.plaidHoldings) + Len(db.manualInvestments) = 2

\* One of the two Google settings is not there.
ConfigAbsent ==
  env.GOOGLE_SERVICE_ACCOUNT_JSON.t = "undefined" \/ env.GOOGLE_SHEET_ID.t = "undefined"

\* C14: without the sheet id or without the service account, a publish is
\* answered with 400 at once: the handler never gets to read the store,
\* and the sheet gets no update.
C14_PublishNeedsConfig ==
  ConfigAbsent =>
    /\ \A p \in Procs : req[p].op # "sheets"
    /\ out.op = "sheets" => out.res.status = 400
    /\ sheet = Null

\* A publish has been refused with records in the store.
C14_Witness ==
  /\ ConfigAbsent
  /\ out.op = "sheets" /\ out.res.status = 400
  /\ db.manualInvestments # <<>>

\* t is s without the white space at its two ends.
TrimOf(t, s) ==
  \E i \in 0..Len(s) : \E j \in 0..(Len(s) - i) :
    /\ t = SubSeq(s, i + 1, Len(s) - j)
    /\ \A k \in 1..i : IsSpace(s[k])
    /\ \A k \in (Len(s) - j + 1)..Len(s) : IsSpace(s[k])
    /\ t # <<>> => (~IsSpace(t[1]) /\ ~IsSpace(t[Len(t)]))
    /\ t = <<>> => i + j = Len(s)

\* u is t with every letter in upper case.
UpperOf(u, t) ==
  /\ Len(u) = Len(t)
  /\ \A k \in 1..Len(t) : u[k] = UpperChar(t[k]) /\ u[k] \notin {"a", "b", "x", "y"}

\* The record e is what the normalizer makes of the text fields of raw.
NormalOf(e, raw) ==
  /\ TrimOf(e.account, raw.account.s)
  /\ TrimOf(e.name, raw.name.s)
  /\ \E t \in {SubSeq(raw.symbol.s, i, j) : i \in 1..(Len(raw.symbol.s) + 1),
                                            j \in 0..Len(raw.symbol.s)} :
       TrimOf(t, raw.symbol.s) /\ UpperOf(e.symbol, t)

\* C15: the records an add or an import appends to the stored list have
\* the trimmed account and name and the trimmed, upper-cased symbol of the
\* rows they were made from.
C15_StoredAsNormalized ==
  [][\A p \in Procs :
       (WritesNow(p) /\ req[p].op \in {"add", "import"}) =>
         LET old == Len(req[p].snap.manualInvestments)
             added == SubSeq(db'.manualInvestments, old + 1, Len(db'.manualInvestments))
             raws == IF req[p].op = "add" THEN <<req[p].in>>
                     ELSE ValidRows(req[p].in.rows.a)
         IN /\ req[p].op = "import" => Len(added) = Len(raws)
            /\ \A k \in 1..Len(added) :
                 added[k] # Null => NormalOf(added[k], raws[k])]_vars

\* The spec's example row has been added: " x" is stored as "X", "X " as
\* "X".
C15_Witness ==
  \E p \in Procs :
    /\ Resumes(p, "add", "respond")
    /\ req[p].in = RowA
    /\ \E i \in 1..Len(db.manualInvestments) :
         /\ db.manualInvestments[i] # Null
         /\ db.manualInvestments[i].symbol = <<"X">>
         /\ db.manualInvestments[i].name = <<"X">>

\* C16: no row makes the normalizer throw: an import is never cut short
\* by an exception, it is answered with 201 or with 400.
C16_NormalizerNeverThrows ==
  out.op = "import" => out.res.status \in {201, 400}

\* C17: the stored holdings have pairwise distinct identifiers.
C17_HoldingIdsDistinct ==
  \A i \in 1..Len(db.plaidHoldings) : \A j \in 1..Len(db.plaidHoldings) :
    i # j => db.plaidHoldings[i].id # db.plaidHoldings[j].id

\* The answer has an entry with this id under key.
Listed(list, key, id) == \E i \in 1..Len(list) : list[i][key] = id

C19_MergedOneToOne ==
  [][\A p \in Procs :
       (Resumes(p, "portfolio", "read") /\ EndsNow(p) /\ out'.res.status = 200) =>
         LET H == db.plaidHoldings
             M == db.manualInvestments
             P == out'.res.positions
         IN /\ Len(P) = Len(H) + Len(M)
            /\ \A i \in 1..Len(H) : P[i].id = H[i].id /\ P[i].source = "Plaid"
            /\ \A j \in 1..Len(M) :
                 P[Len(H) + j].id = M[j].id /\ P[Len(H) + j].source = "Manual"]_vars

\* list-portfolio has answered with a provider position followed by two
\* manual positions of the same symbol.
C19_Witness ==
  /\ out.op = "portfolio" /\ out.res.status = 200
  /\ Len(out.res.positions) = 3
  /\ out.res.positions[1].source = "Plaid"
  /\ out.res.positions[2].source = "Manual"
  /\ out.res.positions[3].source = "Manual"
  /\ out.res.positions[2].symbol = out.res.positions[3].symbol

\* C20: with one request at a time, no step of a handler other than sync
\* changes the holdings or lastSyncAt; no step of a sync changes the manual
\* records or the linked accounts; the write of a delete leaves the records
\* of other ids in place and in order; portfolio and publish change
\* nothing in the store; nor does a step that is no handler's.
C20_Frame ==
  [][/\ (\A p \in Procs : req'[p] = req[p]) => db' = db
     /\ \A p \in Procs : req'[p] # req[p] =>
          /\ req[p].op # "sync" => /\ db'.plaidHoldings = db.plaidHoldings
                                  /\ db'.lastSyncAt = db.lastSyncAt
          /\ req[p].op = "sync" => /\ db'.manualInvestments = db.manualInvestments
                                  /\ db'.plaidItems = db.plaidItems
          /\ req[p].op = "delete" =>
               IF WritesNow(p)
               THEN db'.manualInvestments =
                      SelectSeq(db.manualInvestments, LAMBDA x : x.id # req[p].in)
               ELSE db' = db
          /\ req[p].op \in {"portfolio", "sheets"} => db' = db]_vars

\* An add has written into a store with holdings, and they are still
\* there.
C20_Witness ==
  \E p \in Procs :
    /\ Resumes(p, "add", "respond")
    /\ req[p].snap.plaidHoldings # <<>>
    /\ db.plaidHoldings = req[p].snap.plaidHoldings
    /\ db.manualInvestments # <<>>

\* The sum of the values of a breakdown.
RECURSIVE BreakdownSum(_)
BreakdownSum(b) ==
  IF b = <<>> THEN 0 ELSE b[1].value.n + BreakdownSum(Tail(b))

\* The breakdown b has exactly one bucket for each label, every bucket is a
\* number, and the buckets add up to total.
SumsTo(b, labels, total) ==
  /\ \A i \in 1..Len(b) : b[i].value.t = "number"
  /\ \A i \in 1..Len(labels) :
       Cardinality({k \in 1..Len(b) : b[k].key = labels[i]}) = 1
  /\ BreakdownSum(b) = total

\* C21: in every answer of list-portfolio the buckets of the breakdown by
\* source and those of the breakdown by account are numbers that add up to
\* totalValue, and every position has exactly one bucket in each: the one
\* of its source, and the one of its account label (Unknown for an empty
\* label).
C21_BreakdownsSumToTotal ==
  [][\A p \in Procs :
       (Resumes(p, "portfolio", "read") /\ EndsNow(p) /\ out'.res.status = 200) =>
         LET P == out'.res.positions
             sources == [i \in 1..Len(P) |->
                           IF P[i].source = "Plaid" THEN <<"P", "l", "a", "i", "d">>
                           ELSE <<"M", "a", "n", "u", "a", "l">>]
             accounts == [i \in 1..Len(P) |->
                            IF P[i].account = <<>> THEN <<"U", "n", "k", "n", "o", "w", "n">>
                            ELSE P[i].account]
         IN /\ SumsTo(out'.res.breakdownBySource, sources, out'.res.totalValue)
            /\ SumsTo(out'.res.breakdownByAccount, accounts, out'.res.totalValue)]_vars

\* C22: in every state, whatever the overlap of the requests, stored
\* holdings come with a sync date, in the store and in every document a
\* handler has read.
C22_HoldingsHaveSyncDate ==
  /\ db.plaidHoldings # <<>> => db.lastSyncAt # Null
  /\ \A p \in Procs :
       (req[p].snap # Undef /\ req[p].snap.plaidHoldings # <<>>)
         => req[p].snap.lastSyncAt # Null

\* A sync has written its holdings and, before it has answered, an add
\* that read them has written too.
C22_Witness ==
  \E p \in Procs : \E q \in Procs :
    /\ Resumes(p, "sync", "respond")
    /\ Resumes(q, "add", "respond")
    /\ db.plaidHoldings # <<>> /\ db.lastSyncAt # Null
    /\ db.manualInvestments # <<>>

====
